---- MODULE Spec2Model ----
(***************************************************************************)
(* Model of the channel-backed connection pool of src/channel.go:          *)
(* NewChannelPool, Get/GetWitchContext, Put/PutWithContext, Close, Len and *)
(* OpenNum, run by a fixed set of concurrent goroutines.                   *)
(***************************************************************************)
EXTENDS Integers, Sequences, FiniteSets, TLC

\* ---------------------------------------------------------------- bounds
NumProcs == 2          \* concurrent goroutines calling the pool
MaxGets == 2           \* total Get calls started in one behaviour
MaxFreeBound == 2      \* largest maxFree argument given to NewChannelPool
MaxConnBound == 2      \* largest maxConn argument given to NewChannelPool

Procs == 1..NumProcs

\* ------------------------------------------------------- values and errors
ErrNone == "nil"                         \* a nil error
ErrClosed == "pool is closed"
ErrTimeOut == "time out"
ErrInvalid == "invalid capacity settings"
ErrFill == "factory is not able to fill the pool"
ErrNilConn == "connection is nil. rejecting"
ErrFactory == "factory error"            \* whatever error the Factory returns
ErrConnClose == "conn close error"       \* whatever error net.Conn.Close returns
NoValue == "no value"                    \* Close() has no return value

\* A connection handle: the raw connection a Factory call produced and the
\* number of PoolConn wrappers around it.  Every wrapConn allocates a new
\* PoolConn, so a wrapper is a handle different from the one it wraps.
NilConn == [raw |-> 0, wrap |-> 0]

VARIABLES
    newErr,        \* error returned by NewChannelPool
    argMaxFree,    \* the maxFree argument of NewChannelPool
    argMaxConn,    \* the maxConn argument of NewChannelPool
    connCh,        \* buffered values of p.connCh
    chCap,         \* capacity of p.connCh
    chClosed,      \* close(p.connCh) has run
    closed,        \* p.closed
    maxConn,       \* p.maxConn
    openNum,       \* p.openNum
    mu,            \* holder of p.mu (0: unlocked)
    pc,            \* position of each goroutine
    ctx,           \* context of the call in progress
    arg,           \* conn argument of the Put in progress
    held,          \* handles each goroutine got from Get and has not put back
    last,          \* the call that returned last: goroutine, operation and result
    factoryCalls,  \* number of Factory invocations
    created,       \* number of connections the Factory produced
    closeCalls,    \* number of net.Conn.Close calls per raw connection
    gets,          \* number of Get calls started
    blocked,       \* waiters that found connCh empty when Close closed it
    handoff,       \* per waiter: the handle a Put sent while it waited on an empty connCh
    sawFull,       \* Puts that reached the select with connCh full
    snap,          \* what a caller last read with Len() and OpenNum()
    atClose        \* during Close's drain: connCh and openNum when closed was set, and whether a c.Close() failed

vars == <<newErr, argMaxFree, argMaxConn, connCh, chCap, chClosed, closed,
          maxConn, openNum, mu, pc, ctx, arg, held, last, factoryCalls,
          created, closeCalls, gets, blocked, handoff, sawFull, snap, atClose>>

MaxRaw == MaxFreeBound + MaxGets
Raws == 1..MaxRaw

Result(op, err, conn, via) == [op |-> op, err |-> err, conn |-> conn, via |-> via]
NoSnap == [len |-> -1, open |-> 0, gets |-> 0, held |-> {}]
NoClose == [idle |-> {}, open |-> 0, failed |-> FALSE]
NoResult == [proc |-> 0, op |-> "none", err |-> ErrNone, conn |-> NilConn, via |-> "none"]

\* ------------------------------------------------------------ pure helpers
wrapConn(conn) == [raw |-> conn.raw, wrap |-> conn.wrap + 1]

RawConn(n) == [raw |-> n, wrap |-> 0]

\* channel.go:38
InvalidCapacity(maxFree, mc) == maxFree <= 0 \/ mc < 0 \/ maxFree > mc

\* FillSeq that stops one connection short of n.
FillSeqShort(n) == [i \in 1..(n - 1) |-> RawConn(i)]

\* The first n raw connections, as NewChannelPool sends them into connCh.
FillSeq(n) == [i \in 1..n |-> RawConn(i)]

\* NewChannelPool(maxFree, maxConn, factory); failAt = k > 0 means that the
\* k-th Factory call fails, failAt = 0 that none does.
NewChannelPool(maxFree, mc, failAt) ==
    IF InvalidCapacity(maxFree, mc)
    THEN [err |-> ErrInvalid, connCh |-> <<>>, chCap |-> 0, chClosed |-> FALSE,
          closed |-> FALSE, maxConn |-> 0, openNum |-> 0, factoryCalls |-> 0,
          created |-> 0, closeCalls |-> [r \in Raws |-> 0]]
    ELSE IF failAt > 0
    THEN \* p.Close(): every connection sent so far is closed and counted down
         [err |-> ErrFill, connCh |-> <<>>, chCap |-> maxFree, chClosed |-> TRUE,
          closed |-> TRUE, maxConn |-> 0, openNum |-> 0 - (failAt - 1),
          factoryCalls |-> failAt, created |-> failAt - 1,
          closeCalls |-> [r \in Raws |-> IF r < failAt THEN 1 ELSE 0]]
    ELSE \* the struct literal sets connCh and factory only
         [err |-> ErrNone, connCh |-> FillSeq(maxFree), chCap |-> maxFree,
          chClosed |-> FALSE, closed |-> FALSE, maxConn |-> 0,
          openNum |-> maxFree, factoryCalls |-> maxFree, created |-> maxFree,
          closeCalls |-> [r \in Raws |-> 0]]

\* GetPath without the closed check of lines 75-78.
GetPathNoClosedCheck(isClosed, ch, maxc, open) ==
    IF Len(ch) > 0 \/ (maxc > 0 /\ open >= maxc) THEN "wait"
    ELSE "create"

\* channel.go:75-81: which way GetWitchContext goes under the lock
GetPath(isClosed, ch, maxc, open) ==
    IF isClosed THEN "closed"
    ELSE IF Len(ch) > 0 \/ (maxc > 0 /\ open >= maxc) THEN "wait"
    ELSE "create"

\* OpenAfterClose counting down whatever conn.Close() returned.
OpenAfterCloseAlways(open, err) == open - 1

\* channel.go:119-122: openNum after conn.Close() returned err
OpenAfterClose(open, err) == IF err = ErrNone THEN open - 1 ELSE open

\* channel.go:151-157
PoolLen == Len(connCh)
OpenNum == openNum

\* ------------------------------------------------------------------- Init
Init ==
    \E maxFree \in 0..MaxFreeBound, mc \in -1..MaxConnBound, failAt \in 0..MaxFreeBound :
        /\ failAt <= maxFree
        /\ LET p == NewChannelPool(maxFree, mc, failAt) IN
            /\ newErr = p.err
            /\ argMaxFree = maxFree
            /\ argMaxConn = mc
            /\ connCh = p.connCh
            /\ chCap = p.chCap
            /\ chClosed = p.chClosed
            /\ closed = p.closed
            /\ maxConn = p.maxConn
            /\ openNum = p.openNum
            /\ factoryCalls = p.factoryCalls
            /\ created = p.created
            /\ closeCalls = p.closeCalls
        /\ mu = 0
        /\ pc = [p \in Procs |-> "idle"]
        /\ ctx = [p \in Procs |-> "background"]
        /\ arg = [p \in Procs |-> NilConn]
        /\ held = [p \in Procs |-> {}]
        /\ last = NoResult
        /\ gets = 0
        /\ blocked = {}
        /\ handoff = [p \in Procs |-> NilConn]
        /\ sawFull = {}
        /\ snap = NoSnap
        /\ atClose = NoClose

\* A pool exists only when NewChannelPool returned no error.
HasPool == newErr = ErrNone

Return(p, r) ==
    /\ pc' = [pc EXCEPT ![p] = "idle"]
    /\ ctx' = [ctx EXCEPT ![p] = "background"]
    /\ arg' = [arg EXCEPT ![p] = NilConn]
    /\ last' = [proc |-> p, op |-> r.op, err |-> r.err, conn |-> r.conn, via |-> r.via]
    /\ blocked' = blocked \ {p}
    /\ sawFull' = sawFull \ {p}

\* ---------------------------------------------------------------- actions
\* GetWitchContext whose create path leaves openNum as it is.
GetNoCount(p, c, factoryOk) ==
    /\ HasPool /\ pc[p] = "idle" /\ mu = 0 /\ gets < MaxGets
    /\ gets' = gets + 1
    /\ LET path == GetPath(closed, connCh, maxConn, openNum) IN
        CASE path = "closed" ->
                /\ Return(p, Result("get", ErrClosed, NilConn, "closed"))
                /\ UNCHANGED <<held, factoryCalls, created, openNum>>
          [] path = "wait" ->
                /\ pc' = [pc EXCEPT ![p] = "get_wait"]
                /\ ctx' = [ctx EXCEPT ![p] = c]
                /\ UNCHANGED <<arg, last, blocked, sawFull, held, factoryCalls, created, openNum>>
          [] path = "create" ->
                /\ factoryCalls' = factoryCalls + 1
                /\ IF factoryOk
                   THEN /\ created' = created + 1
                        /\ openNum' = openNum
                        /\ held' = [held EXCEPT ![p] = @ \cup {wrapConn(RawConn(created + 1))}]
                        /\ Return(p, Result("get", ErrNone, wrapConn(RawConn(created + 1)), "create"))
                   ELSE /\ Return(p, Result("get", ErrFactory, NilConn, "create"))
                        /\ UNCHANGED <<held, created, openNum>>
    /\ UNCHANGED <<snap, atClose, newErr, argMaxFree, argMaxConn, connCh, chCap, chClosed,
                   closed, maxConn, mu, closeCalls, handoff>>

\* GetWitchContext, lines 73-82 and 94-101: Lock, the closed check, the choice
\* of path, and on the create path the Factory call, all under p.mu.
GetWitchContext(p, c, factoryOk) ==
    /\ HasPool /\ pc[p] = "idle" /\ mu = 0 /\ gets < MaxGets
    /\ gets' = gets + 1
    /\ LET path == GetPath(closed, connCh, maxConn, openNum) IN
        CASE path = "closed" ->
                /\ Return(p, Result("get", ErrClosed, NilConn, "closed"))
                /\ UNCHANGED <<held, factoryCalls, created, openNum>>
          [] path = "wait" ->
                /\ pc' = [pc EXCEPT ![p] = "get_wait"]
                /\ ctx' = [ctx EXCEPT ![p] = c]
                /\ UNCHANGED <<arg, last, blocked, sawFull, held, factoryCalls, created, openNum>>
          [] path = "create" ->
                /\ factoryCalls' = factoryCalls + 1
                /\ IF factoryOk
                   THEN /\ created' = created + 1
                        /\ openNum' = openNum + 1
                        /\ held' = [held EXCEPT ![p] = @ \cup {wrapConn(RawConn(created + 1))}]
                        /\ Return(p, Result("get", ErrNone, wrapConn(RawConn(created + 1)), "create"))
                   ELSE /\ Return(p, Result("get", ErrFactory, NilConn, "create"))
                        /\ UNCHANGED <<held, created, openNum>>
    /\ UNCHANGED <<snap, atClose, newErr, argMaxFree, argMaxConn, connCh, chCap, chClosed,
                   closed, maxConn, mu, closeCalls, handoff>>

\* GetRecv that returns the head of connCh and leaves it in the buffer.
GetRecvKeeps(p) ==
    /\ pc[p] = "get_wait"
    /\ \/ /\ connCh # <<>>
          /\ held' = [held EXCEPT ![p] = @ \cup {wrapConn(Head(connCh))}]
          /\ Return(p, Result("get", ErrNone, wrapConn(Head(connCh)), "wait"))
       \/ /\ connCh = <<>> /\ chClosed
          /\ Return(p, Result("get", ErrClosed, NilConn,
                              IF p \in blocked THEN "woken" ELSE "wait"))
          /\ UNCHANGED held
    /\ handoff' = [handoff EXCEPT ![p] = NilConn]
    /\ UNCHANGED <<snap, atClose, newErr, argMaxFree, argMaxConn, connCh, chCap,
                   chClosed, closed, maxConn, openNum, mu, factoryCalls, created,
                   closeCalls, gets>>

\* GetWitchContext, lines 86-90: the receive from connCh wins the select.
GetRecv(p) ==
    /\ pc[p] = "get_wait"
    /\ \/ /\ connCh # <<>>
          /\ connCh' = Tail(connCh)
          /\ held' = [held EXCEPT ![p] = @ \cup {wrapConn(Head(connCh))}]
          /\ Return(p, Result("get", ErrNone, wrapConn(Head(connCh)), "wait"))
       \/ /\ connCh = <<>> /\ chClosed
          /\ Return(p, Result("get", ErrClosed, NilConn,
                              IF p \in blocked THEN "woken" ELSE "wait"))
          /\ UNCHANGED <<connCh, held>>
    /\ handoff' = [handoff EXCEPT ![p] = NilConn]
    /\ UNCHANGED <<snap, atClose, newErr, argMaxFree, argMaxConn, chCap, chClosed, closed,
                   maxConn, openNum, mu, factoryCalls, created, closeCalls, gets>>

\* GetTimeout that also takes a buffered connection and drops it.
GetTimeoutTakes(p) ==
    /\ pc[p] = "get_wait" /\ ctx[p] = "cancel"
    /\ connCh' = IF connCh # <<>> THEN Tail(connCh) ELSE connCh
    /\ Return(p, Result("get", ErrTimeOut, NilConn, "wait"))
    /\ handoff' = [handoff EXCEPT ![p] = NilConn]
    /\ UNCHANGED <<snap, atClose, newErr, argMaxFree, argMaxConn, chCap, chClosed,
                   closed, maxConn, openNum, mu, held, factoryCalls, created,
                   closeCalls, gets>>

\* GetWitchContext, lines 84-85: ctx.Done() wins the select.
GetTimeout(p) ==
    /\ pc[p] = "get_wait" /\ ctx[p] = "cancel"
    /\ Return(p, Result("get", ErrTimeOut, NilConn, "wait"))
    /\ handoff' = [handoff EXCEPT ![p] = NilConn]
    /\ UNCHANGED <<snap, atClose, newErr, argMaxFree, argMaxConn, connCh, chCap, chClosed,
                   closed, maxConn, openNum, mu, held, factoryCalls, created,
                   closeCalls, gets>>

\* PutWithContext, lines 110-112: a nil conn is rejected before the lock.
PutNil(p) ==
    /\ HasPool /\ pc[p] = "idle"
    /\ Return(p, Result("put", ErrNilConn, NilConn, "nil"))
    /\ UNCHANGED handoff
    /\ UNCHANGED <<snap, atClose, newErr, argMaxFree, argMaxConn, connCh, chCap, chClosed,
                   closed, maxConn, openNum, mu, held, factoryCalls, created,
                   closeCalls, gets>>

\* PutWithContext without the closed branch of lines 118-124.
PutIgnoresClosed(p, c, conn, closeOk) ==
    /\ HasPool /\ pc[p] = "idle" /\ mu = 0
    /\ conn \in held[p]
    /\ mu' = p
    /\ pc' = [pc EXCEPT ![p] = "put_select"]
    /\ ctx' = [ctx EXCEPT ![p] = c]
    /\ arg' = [arg EXCEPT ![p] = conn]
    /\ sawFull' = IF Len(connCh) = chCap THEN sawFull \cup {p} ELSE sawFull
    /\ UNCHANGED <<closeCalls, openNum, held, last, blocked>>
    /\ UNCHANGED <<snap, atClose, newErr, argMaxFree, argMaxConn, connCh, chCap, chClosed,
                   closed, maxConn, factoryCalls, created, gets, handoff>>

\* PutWithContext, lines 114-125: Lock and the closed branch; on an open pool
\* the goroutine reaches the select of line 126 with p.mu held.
PutWithContext(p, c, conn, closeOk) ==
    /\ HasPool /\ pc[p] = "idle" /\ mu = 0
    /\ conn \in held[p]
    /\ IF closed
       THEN LET err == IF closeOk THEN ErrNone ELSE ErrConnClose IN
            /\ closeCalls' = [closeCalls EXCEPT ![conn.raw] = @ + 1]
            /\ openNum' = OpenAfterClose(openNum, err)
            /\ held' = [held EXCEPT ![p] = @ \ {conn}]
            /\ Return(p, Result("put", err, conn, "closed"))
            /\ UNCHANGED mu
       ELSE /\ mu' = p
            /\ pc' = [pc EXCEPT ![p] = "put_select"]
            /\ ctx' = [ctx EXCEPT ![p] = c]
            /\ arg' = [arg EXCEPT ![p] = conn]
            /\ sawFull' = IF Len(connCh) = chCap THEN sawFull \cup {p} ELSE sawFull
            /\ UNCHANGED <<closeCalls, openNum, held, last, blocked>>
    /\ UNCHANGED <<snap, atClose, newErr, argMaxFree, argMaxConn, connCh, chCap, chClosed,
                   closed, maxConn, factoryCalls, created, gets, handoff>>

\* PutSend that returns nil without sending the connection.
PutSendDrop(p) ==
    /\ pc[p] = "put_select"
    /\ Len(connCh) < chCap
    /\ held' = [held EXCEPT ![p] = @ \ {arg[p]}]
    /\ mu' = 0
    /\ Return(p, Result("put", ErrNone, arg[p], "send"))
    /\ UNCHANGED <<snap, atClose, newErr, argMaxFree, argMaxConn, connCh, chCap,
                   chClosed, closed, maxConn, openNum, factoryCalls, created,
                   closeCalls, gets, handoff>>

\* PutSend that sends even when the buffer is full.
PutSendNoRoomCheck(p) ==
    /\ pc[p] = "put_select"
    /\ connCh' = Append(connCh, arg[p])
    /\ held' = [held EXCEPT ![p] = @ \ {arg[p]}]
    /\ mu' = 0
    /\ Return(p, Result("put", ErrNone, arg[p], "send"))
    /\ handoff' = [q \in Procs |-> IF connCh = <<>> /\ pc[q] = "get_wait"
                                    THEN arg[p] ELSE handoff[q]]
    /\ UNCHANGED <<snap, atClose, newErr, argMaxFree, argMaxConn, chCap, chClosed, closed,
                   maxConn, openNum, factoryCalls, created, closeCalls, gets>>

\* PutWithContext, lines 129-130: the send into connCh wins the select; it can
\* only when the buffer has room.
PutSend(p) ==
    /\ pc[p] = "put_select"
    /\ Len(connCh) < chCap
    /\ connCh' = Append(connCh, arg[p])
    /\ held' = [held EXCEPT ![p] = @ \ {arg[p]}]
    /\ mu' = 0
    /\ Return(p, Result("put", ErrNone, arg[p], "send"))
    /\ handoff' = [q \in Procs |-> IF connCh = <<>> /\ pc[q] = "get_wait"
                                    THEN arg[p] ELSE handoff[q]]
    /\ UNCHANGED <<snap, atClose, newErr, argMaxFree, argMaxConn, chCap, chClosed, closed,
                   maxConn, openNum, factoryCalls, created, closeCalls, gets>>

\* PutWithContext, lines 127-128: ctx.Done() wins the select.
PutTimeout(p) ==
    /\ pc[p] = "put_select" /\ ctx[p] = "cancel"
    /\ mu' = 0
    /\ Return(p, Result("put", ErrTimeOut, arg[p], "timeout"))
    /\ UNCHANGED handoff
    /\ UNCHANGED <<snap, atClose, newErr, argMaxFree, argMaxConn, connCh, chCap, chClosed,
                   closed, maxConn, openNum, held, factoryCalls, created,
                   closeCalls, gets>>

\* Close that sets closed but leaves connCh open (no close(p.connCh)).
CloseNoSignal(p) ==
    /\ HasPool /\ pc[p] = "idle" /\ mu = 0
    /\ IF closed
       THEN /\ Return(p, Result("close", NoValue, NilConn, "closed"))
            /\ UNCHANGED <<closed, mu, atClose>>
       ELSE /\ closed' = TRUE
            /\ mu' = p
            /\ pc' = [pc EXCEPT ![p] = "close_drain"]
            /\ blocked' = IF connCh = <<>>
                          THEN {q \in Procs : pc[q] = "get_wait"} ELSE {}
            /\ atClose' = [idle |-> {connCh[i].raw : i \in 1..Len(connCh)},
                           open |-> openNum, failed |-> FALSE]
            /\ UNCHANGED <<ctx, arg, last, sawFull>>
    /\ UNCHANGED <<snap, newErr, argMaxFree, argMaxConn, connCh, chCap, chClosed, maxConn,
                   openNum, held, factoryCalls, created, closeCalls, gets, handoff>>

\* Close, lines 136-144: Lock, the closed check, closed = true, close(connCh).
Close(p) ==
    /\ HasPool /\ pc[p] = "idle" /\ mu = 0
    /\ IF closed
       THEN /\ Return(p, Result("close", NoValue, NilConn, "closed"))
            /\ UNCHANGED <<closed, chClosed, mu, atClose>>
       ELSE /\ closed' = TRUE
            /\ chClosed' = TRUE
            /\ mu' = p
            /\ pc' = [pc EXCEPT ![p] = "close_drain"]
            /\ blocked' = IF connCh = <<>>
                          THEN {q \in Procs : pc[q] = "get_wait"} ELSE {}
            /\ atClose' = [idle |-> {connCh[i].raw : i \in 1..Len(connCh)},
                           open |-> openNum, failed |-> FALSE]
            /\ UNCHANGED <<ctx, arg, last, sawFull>>
    /\ UNCHANGED <<snap, newErr, argMaxFree, argMaxConn, connCh, chCap, maxConn,
                   openNum, held, factoryCalls, created, closeCalls, gets, handoff>>

\* CloseDrain that counts openNum down only when c.Close() returned nil.
CloseDrainChecked(p, closeOk) ==
    /\ pc[p] = "close_drain"
    /\ IF connCh # <<>>
       THEN /\ connCh' = Tail(connCh)
            /\ closeCalls' = [closeCalls EXCEPT ![Head(connCh).raw] = @ + 1]
            /\ openNum' = IF closeOk THEN openNum - 1 ELSE openNum
            /\ atClose' = [atClose EXCEPT !.failed = @ \/ ~closeOk]
            /\ UNCHANGED <<mu, pc, ctx, arg, last, blocked, sawFull>>
       ELSE /\ mu' = 0
            /\ Return(p, Result("close", NoValue, NilConn,
                                IF atClose.failed THEN "drain_failed" ELSE "first"))
            /\ atClose' = NoClose
            /\ UNCHANGED <<connCh, closeCalls, openNum>>
    /\ UNCHANGED <<snap, newErr, argMaxFree, argMaxConn, chCap, chClosed, closed,
                   maxConn, held, factoryCalls, created, gets, handoff>>

\* Close, lines 145-149: one iteration of the range over the closed channel,
\* or its end and the deferred Unlock.  closeOk: c.Close() returned nil; the
\* code discards that error.
CloseDrain(p, closeOk) ==
    /\ pc[p] = "close_drain"
    /\ IF connCh # <<>>
       THEN /\ connCh' = Tail(connCh)
            /\ closeCalls' = [closeCalls EXCEPT ![Head(connCh).raw] = @ + 1]
            /\ openNum' = openNum - 1
            /\ atClose' = [atClose EXCEPT !.failed = @ \/ ~closeOk]
            /\ UNCHANGED <<mu, pc, ctx, arg, last, blocked, sawFull>>
       ELSE /\ mu' = 0
            /\ Return(p, Result("close", NoValue, NilConn,
                                IF atClose.failed THEN "drain_failed" ELSE "first"))
            /\ atClose' = NoClose
            /\ UNCHANGED <<connCh, closeCalls, openNum>>
    /\ UNCHANGED <<snap, newErr, argMaxFree, argMaxConn, chCap, chClosed, closed,
                   maxConn, held, factoryCalls, created, gets, handoff>>

Ctxs == {"background", "cancel"}

Next ==
    \/ \E p \in Procs, c \in Ctxs, ok \in BOOLEAN : GetWitchContext(p, c, ok)
    \/ \E p \in Procs : GetRecv(p)
    \/ \E p \in Procs : GetTimeout(p)
    \/ \E p \in Procs : PutNil(p)
    \/ \E p \in Procs, c \in Ctxs, ok \in BOOLEAN : \E conn \in held[p] : PutWithContext(p, c, conn, ok)
    \/ \E p \in Procs : PutSend(p)
    \/ \E p \in Procs : PutTimeout(p)
    \/ \E p \in Procs : Close(p)
    \/ \E p \in Procs, ok \in BOOLEAN : CloseDrain(p, ok)

Spec == Init /\ [][Next]_vars

TypeOK ==
    /\ closed \in BOOLEAN
    /\ mu \in 0..NumProcs
    /\ Len(connCh) <= chCap

\* No call on the pool is in progress.
Quiet == \A p \in Procs : pc[p] = "idle"

\* A caller reads Len() and OpenNum() (lines 151-157) while no call is in
\* progress, and notes how many Gets have started and which handles are out.
Observe ==
    /\ HasPool /\ Quiet
    /\ snap' = [len |-> PoolLen, open |-> OpenNum, gets |-> gets,
                held |-> UNION {held[p] : p \in Procs}]
    /\ UNCHANGED <<newErr, argMaxFree, argMaxConn, connCh, chCap, chClosed,
                   closed, maxConn, openNum, mu, pc, ctx, arg, held, last,
                   factoryCalls, created, closeCalls, gets, blocked, handoff,
                   sawFull, atClose>>

\* The calls of a caller that starts a call only when none is in progress.
Caller == CHOOSE p \in Procs : \A q \in Procs : p <= q
SeqGet(p, c, factoryOk) == Quiet /\ GetWitchContext(p, c, factoryOk)
SeqPutNil(p) == Quiet /\ PutNil(p)
SeqPut(p, c, conn, closeOk) == Quiet /\ PutWithContext(p, c, conn, closeOk)
SeqClose(p) == Quiet /\ Close(p)

SeqNext ==
    \/ Observe
    \/ \E p \in {Caller}, c \in Ctxs, ok \in BOOLEAN : SeqGet(p, c, ok)
    \/ \E p \in {Caller} : GetRecv(p)
    \/ \E p \in {Caller} : GetTimeout(p)
    \/ \E p \in {Caller} : SeqPutNil(p)
    \/ \E p \in {Caller}, c \in Ctxs, ok \in BOOLEAN : \E conn \in held[p] : SeqPut(p, c, conn, ok)
    \/ \E p \in {Caller} : PutSend(p)
    \/ \E p \in {Caller} : PutTimeout(p)
    \/ \E p \in {Caller} : SeqClose(p)
    \/ \E p \in {Caller}, ok \in BOOLEAN : CloseDrain(p, ok)

\* One goroutine making one call at a time, reading Len() and OpenNum()
\* between calls.
SeqSpec == Init /\ [][SeqNext]_vars

\* The Go scheduler runs a goroutine whose select has a ready case: a waiter
\* that can receive from connCh (a value or the closed signal) does so.
FairSpec == Spec /\ \A p \in Procs : WF_vars(GetRecv(p))

\* ------------------------------------------------------------ the claims
\* Shutdown has completed: the pool's closed is set and no Close is still draining.
ShutdownCompleted == HasPool /\ closed /\ \A p \in Procs : pc[p] # "close_drain"

\* The handles checked out to callers.
CheckedOut == UNION {held[p] : p \in Procs}

\* C1: for a pool built with maxConn > 0, openNum never exceeds maxConn.
C1_OpenNumWithinCap ==
    (HasPool /\ argMaxConn > 0) => openNum <= argMaxConn

\* C2: a Get that starts on an open pool with connCh empty and openNum at
\* the configured cap does not call the Factory and does not return: it
\* takes the wait path.
C2_GetAtCapWaits ==
    [][(gets' = gets + 1 /\ ~closed /\ connCh = <<>>
            /\ argMaxConn > 0 /\ openNum >= argMaxConn)
        => (factoryCalls' = factoryCalls
            /\ \E p \in Procs : pc[p] = "idle" /\ pc'[p] = "get_wait")]_vars

\* C3: a Get blocked at the cap on an empty connCh that is woken by a Put of
\* handle c returns that very handle c, and openNum does not change.
C3_HandOverSameConn ==
    [][\A p \in Procs :
          (pc[p] = "get_wait" /\ pc'[p] = "idle" /\ last'.proc = p
              /\ last'.err = ErrNone /\ handoff[p] # NilConn
              /\ connCh # <<>> /\ Head(connCh) = handoff[p]
              /\ openNum >= argMaxConn)
          => (last'.conn = handoff[p] /\ openNum' = openNum)]_vars

\* C4: a Put that finds connCh full on an open pool returns having closed
\* its connection, with the close outcome as its result, openNum one less
\* when the close succeeded, and connCh still full.
C4_PutIntoFullCloses ==
    [][\A p \in sawFull :
          (pc[p] = "put_select" /\ pc'[p] = "idle")
          => /\ closeCalls' = [closeCalls EXCEPT ![arg[p].raw] = @ + 1]
             /\ last'.err \in {ErrNone, ErrConnClose}
             /\ openNum' = (IF last'.err = ErrNone THEN openNum - 1 ELSE openNum)
             /\ Len(connCh') = chCap]_vars

\* C5: no Put whose context never fires is ever unable to proceed while it
\* holds p.mu: at its select the buffer has room.
C5_NoBlockUnderLock ==
    \A p \in Procs :
        (pc[p] = "put_select" /\ ctx[p] = "background") => Len(connCh) < chCap

\* C6: once Close has completed Len() is 0, and every Get started afterwards
\* returns ErrClosed and no connection, without calling the Factory.
C6_AfterCloseGetFails ==
    /\ [](ShutdownCompleted => PoolLen = 0)
    /\ [][(ShutdownCompleted /\ gets' = gets + 1)
            => /\ last'.op = "get" /\ last'.err = ErrClosed /\ last'.conn = NilConn
               /\ factoryCalls' = factoryCalls /\ created' = created
               /\ held' = held /\ pc' = pc]_vars

C6_Witness ==
    /\ ShutdownCompleted /\ HasPool
    /\ last.op = "get" /\ last.via = "closed" /\ last.err = ErrClosed

\* C7: every Get that is blocked in the wait path on an empty connCh when
\* Close closes the pool eventually returns, and it returns ErrClosed and no
\* connection (or ErrTimeOut, when its own context fires first).
C7_WaitersWokenByClose ==
    /\ [][\A p \in blocked :
            (pc[p] = "get_wait" /\ pc'[p] = "idle")
            => /\ last'.proc = p /\ last'.op = "get" /\ last'.conn = NilConn
               /\ \/ last'.err = ErrClosed
                  \/ last'.err = ErrTimeOut /\ ctx[p] = "cancel"]_vars
    /\ (blocked # {}) ~> (blocked = {})

C7_Witness ==
    closed /\ last.op = "get" /\ last.via = "woken" /\ last.err = ErrClosed

\* C8: a Put of a checked-out handle on a closed pool calls Close on that
\* connection once, returns the close outcome, counts openNum down by one
\* exactly when the close succeeded, and leaves connCh empty; until then
\* the checked-out connections stay counted in openNum.
C8_PutAfterClose ==
    /\ [](ShutdownCompleted => openNum >= Cardinality(CheckedOut))
    /\ [][\A p \in Procs : \A conn \in held[p] :
            (closed /\ pc[p] = "idle" /\ conn \notin held'[p])
            => /\ closeCalls' = [closeCalls EXCEPT ![conn.raw] = @ + 1]
               /\ last'.proc = p /\ last'.op = "put"
               /\ last'.err \in {ErrNone, ErrConnClose}
               /\ openNum' = (IF last'.err = ErrNone THEN openNum - 1 ELSE openNum)
               /\ connCh = <<>> /\ connCh' = <<>>]_vars

C8_Witness ==
    /\ ShutdownCompleted /\ last.op = "put" /\ last.via = "closed"
    /\ last.err = ErrNone /\ closeCalls[last.conn.raw] = 1
    /\ openNum = Cardinality(CheckedOut)

\* C9: a Close on a pool that is already closed fails with ErrClosed.
C9_SecondCloseFails ==
    (last.op = "close" /\ last.via = "closed") => last.err = ErrClosed

\* The pool's connections and counters.
PoolData == <<connCh, chClosed, closed, openNum, factoryCalls, created, closeCalls>>

\* C10: a Get that takes the wait path and returns because its context
\* fired returns ErrTimeOut and no connection, and none of its steps changes
\* connCh, openNum, the connections created or closed, or the handles held.
C10_TimeoutChangesNothing ==
    [][\A p \in Procs :
          /\ (pc[p] = "idle" /\ pc'[p] = "get_wait")
                => (PoolData' = PoolData /\ held' = held)
          /\ (pc[p] = "get_wait" /\ pc'[p] = "idle" /\ last'.err = ErrTimeOut)
                => (PoolData' = PoolData /\ held' = held
                    /\ last'.proc = p /\ last'.conn = NilConn)]_vars

C10_Witness ==
    /\ last.op = "get" /\ last.err = ErrTimeOut /\ last.via = "wait"
    /\ ~closed /\ connCh = <<>> /\ openNum > 0
\* No call on the pool has started since NewChannelPool returned.
Fresh == gets = 0 /\ last = NoResult /\ \A p \in Procs : pc[p] = "idle"

\* C11: NewChannelPool fails with the invalid-capacity error, having created
\* no connection, exactly when maxFree <= 0, or maxConn < 0, or maxConn > 0
\* and maxFree > maxConn; with maxFree > 0 and maxConn = 0 it succeeds.
C11_InvalidExactly ==
    /\ (newErr = ErrInvalid)
          <=> (argMaxFree <= 0 \/ argMaxConn < 0
               \/ (argMaxConn > 0 /\ argMaxFree > argMaxConn))
    /\ (newErr = ErrInvalid) => factoryCalls = 0

\* C12: for 0 < maxFree <= maxConn and a Factory that does not fail,
\* NewChannelPool succeeds after exactly maxFree Factory calls and the new
\* pool has OpenNum() = maxFree, Len() = maxFree and closed = false.
C12_ConstructionFills ==
    (Fresh /\ 0 < argMaxFree /\ argMaxFree <= argMaxConn /\ factoryCalls = created)
    => /\ newErr = ErrNone
       /\ factoryCalls = argMaxFree
       /\ OpenNum = argMaxFree
       /\ PoolLen = argMaxFree
       /\ ~closed

C12_Witness ==
    Fresh /\ HasPool /\ argMaxFree = 2 /\ argMaxConn = 2 /\ PoolLen = 2 /\ OpenNum = 2
\* Since the last Len()/OpenNum() reading exactly one Get has started, the
\* handle it returned has been sent back by a Put, and nothing else changed
\* the handles that are out; the pool is open and no call is in progress.
GetThenPut ==
    /\ HasPool /\ Quiet /\ ~closed
    /\ snap.len >= 0 /\ gets = snap.gets + 1
    /\ CheckedOut = snap.held
    /\ last.op = "put" /\ last.via = "send"

\* After maxFree Gets on a new pool every handle has been put back.
AllPutBack ==
    /\ HasPool /\ Quiet /\ ~closed
    /\ gets = argMaxFree /\ CheckedOut = {}

\* C13 as stated: a Get that returns followed by a Put of its connection,
\* with nothing else in progress, leaves Len() and openNum as they were
\* before the Get; after maxFree Gets and maxFree Puts Len() = maxFree and
\* no Put had to fail.
C13_GetPutRestores ==
    /\ (GetThenPut /\ (snap.len > 0 \/ snap.open < argMaxConn))
          => (PoolLen = snap.len /\ OpenNum = snap.open)
    /\ AllPutBack => PoolLen = argMaxFree
    /\ \A p \in Procs :
          (pc[p] = "put_select" /\ gets <= argMaxFree) => Len(connCh) < chCap

\* C13 amended: Len() and openNum are restored when connCh was not empty
\* before the Get; when it was empty and the cap not reached the Get created
\* a connection, and after the Put Len() and openNum are one more than before.
C13_GetPutRestoresIdle ==
    /\ (GetThenPut /\ snap.len > 0)
          => (PoolLen = snap.len /\ OpenNum = snap.open)
    /\ (GetThenPut /\ snap.len = 0 /\ snap.open < argMaxConn)
          => (PoolLen = 1 /\ OpenNum = snap.open + 1)
    /\ AllPutBack => (PoolLen = argMaxFree /\ OpenNum = argMaxFree)
    /\ \A p \in Procs :
          (pc[p] = "put_select" /\ gets <= argMaxFree) => Len(connCh) < chCap

C13_Witness ==
    GetThenPut /\ snap.len > 0 /\ PoolLen = snap.len /\ AllPutBack
\* C14: a Get on an open pool with connCh empty and the cap not reached calls
\* the Factory exactly once and returns in the same step, with the new
\* connection and openNum one larger (or with the Factory's error and openNum
\* unchanged); a Get that finds connCh not empty takes the wait path, and when
\* it receives it returns the connection at the head of connCh, Len() one
\* less, with no Factory call and openNum unchanged.
C14_GetCreatesOrReuses ==
    [][/\ (gets' = gets + 1 /\ ~closed /\ connCh = <<>>
              /\ (argMaxConn = 0 \/ openNum < argMaxConn))
          => /\ factoryCalls' = factoryCalls + 1
             /\ pc' = pc /\ last'.op = "get" /\ connCh' = connCh
             /\ \/ /\ last'.err = ErrNone
                   /\ created' = created + 1
                   /\ last'.conn = wrapConn(RawConn(created'))
                   /\ last'.conn \in held'[last'.proc]
                   /\ openNum' = openNum + 1
                \/ /\ last'.err = ErrFactory /\ last'.conn = NilConn
                   /\ created' = created /\ openNum' = openNum /\ held' = held
       /\ (gets' = gets + 1 /\ ~closed /\ connCh # <<>>)
          => /\ \E p \in Procs : pc[p] = "idle" /\ pc'[p] = "get_wait"
             /\ factoryCalls' = factoryCalls /\ openNum' = openNum
             /\ connCh' = connCh
       /\ \A p \in Procs :
            (pc[p] = "get_wait" /\ pc'[p] = "idle" /\ connCh # <<>>
                /\ last'.err = ErrNone)
            => /\ connCh' = Tail(connCh)
               /\ last'.proc = p /\ last'.conn.raw = Head(connCh).raw
               /\ last'.conn \in held'[p]
               /\ factoryCalls' = factoryCalls /\ openNum' = openNum]_vars

C14_Witness ==
    /\ HasPool /\ ~closed /\ connCh = <<>>
    /\ last.op = "get" /\ last.via = "create" /\ last.err = ErrNone
    /\ openNum = argMaxFree + 1 /\ openNum <= argMaxConn
\* C15: while the pool is not closed, openNum >= Len() and
\* 0 <= Len() <= maxFree (callers put back only handles they got, once each).
C15_IdleWithinBounds ==
    (HasPool /\ ~closed)
    => (OpenNum >= PoolLen /\ 0 <= PoolLen /\ PoolLen <= argMaxFree)

C15_Witness ==
    /\ HasPool /\ ~closed /\ PoolLen = argMaxFree /\ OpenNum > PoolLen
    /\ last.op = "put" /\ last.via = "send"

\* C16: closed never goes back to false, and once it is true no step calls
\* the Factory or adds a connection to connCh.
C16_ClosedIsFinal ==
    [][closed => /\ closed'
                 /\ factoryCalls' = factoryCalls /\ created' = created
                 /\ (connCh' = connCh \/ (connCh # <<>> /\ connCh' = Tail(connCh)))]_vars

C16_Witness ==
    /\ HasPool /\ closed /\ gets > 0 /\ CheckedOut # {}
    /\ \E p \in Procs : pc[p] = "get_wait"
\* C17: when Close returns, every connection that was in connCh when closed
\* was set has had Close called on it and openNum has gone down by one for
\* each; no Get returns a connection once closed is set.
C17_DrainTakesAllIdle ==
    [][\A p \in Procs :
          /\ (pc[p] = "close_drain" /\ pc'[p] = "idle")
                => /\ \A r \in atClose.idle : closeCalls[r] >= 1
                   /\ openNum = atClose.open - Cardinality(atClose.idle)
          /\ (closed /\ pc[p] = "get_wait" /\ pc'[p] = "idle")
                => last'.err # ErrNone]_vars

\* C18: Close is never called twice on the same connection, and a Get never
\* returns a connection on which the pool has called Close.
C18_CloseOncePerConn ==
    /\ [](\A r \in Raws : closeCalls[r] <= 1)
    /\ [][(last' # last /\ last'.op = "get" /\ last'.err = ErrNone)
            => closeCalls[last'.conn.raw] = 0]_vars

C18_Witness ==
    /\ ShutdownCompleted /\ last.op = "put" /\ last.via = "closed"
    /\ closeCalls[last.conn.raw] = 1
    /\ \E r \in Raws : r # last.conn.raw /\ closeCalls[r] = 1

C20_NoWaiterBelowCap ==
    \A p \in Procs :
        (HasPool /\ pc[p] = "get_wait" /\ ctx[p] = "background")
        => (closed \/ connCh # <<>> \/ openNum >= argMaxConn)
====
